---- MODULE Spec2Model ----
(***************************************************************************)
(* A model of builder/builder.py: the command runner run_cmd, the builder  *)
(* classes (NdkBuilder and the six CMake builders), BuilderImpl.clean and  *)
(* BuilderFactory.create, driven by one Python process that calls them.    *)
(*                                                                         *)
(* Text that the code inspects (a compiler prefix, the value of an         *)
(* environment variable) is a sequence of atoms: the separator atoms "/"   *)
(* and "\\" and name fragments.  Text the code only passes on (a build     *)
(* directory, a command token) is a string.                                *)
(***************************************************************************)
EXTENDS Integers, Sequences, FiniteSets, TLC

VARIABLES
    platform,     \* sys.platform of the running interpreter
    builders,     \* the builder object each variable of the caller holds
    pc,           \* "running", or "exited" once the interpreter has ended
    exit_status,  \* the interpreter's exit status (0 while running)
    last,         \* the most recent call: operation, arguments, what it raised
    issued,       \* the child processes the most recent call started, in order
    out,          \* what the most recent call printed, in order
    earlier       \* the option tokens build calls before the most recent
                  \* call were given

vars == <<platform, builders, pc, exit_status, last, issued, out, earlier>>

----------------------------------------------------------------------------
(* Text and paths. *)

RECURSIVE Join(_, _)
\* sep.join(toks)
Join(toks, sep) ==
    IF toks = << >> THEN ""
    ELSE IF Len(toks) = 1 THEN toks[1]
    ELSE toks[1] \o sep \o Join(Tail(toks), sep)

\* The atoms pathlib splits a path at: "/" everywhere, "\\" on Windows too.
Seps(plat) == IF plat = "win32" THEN {"/", "\\"} ELSE {"/"}

\* The separator str(Path) writes.
SepOf(plat) == IF plat = "win32" THEN "\\" ELSE "/"

RECURSIVE Split(_, _, _)
\* The components of text t: cur is the component being read.  Empty
\* components and "." are dropped, as pathlib drops them.
Split(t, cur, plat) ==
    LET done == IF cur = "" \/ cur = "." THEN << >> ELSE <<cur>>
    IN  IF t = << >> THEN done
        ELSE IF Head(t) \in Seps(plat) THEN done \o Split(Tail(t), "", plat)
        ELSE Split(Tail(t), cur \o Head(t), plat)

\* Path(t): whether the path is anchored at the root, and its components.
Path(t, plat) ==
    [abs   |-> t # << >> /\ Head(t) \in Seps(plat),
     parts |-> Split(t, "", plat)]

\* p / name, for a relative one-component name.
Div(p, name) == [p EXCEPT !.parts = Append(@, name)]

\* str(p)
Str(p, plat) ==
    IF p.parts = << >> THEN (IF p.abs THEN SepOf(plat) ELSE ".")
    ELSE (IF p.abs THEN SepOf(plat) ELSE "") \o Join(p.parts, SepOf(plat))

----------------------------------------------------------------------------
(* The process environment and the filesystem the constructors look at. *)

\* os.environ.get(name): set says whether the variable is there.
Unset == [set |-> FALSE, val |-> << >>]
Value(t) == [set |-> TRUE, val |-> t]

\* "not v" for the result of os.environ.get: None and "" are both falsy.
Falsy(v) == ~v.set \/ v.val = << >>

\* The variables the constructors read.
EnvVars == {"ANDROID_NDK", "MinGW", "LLVM", "GCC", "OHOS_SDK"}

\* An environment with every variable set, each to a root of its own.
AllSet ==
    [v \in EnvVars |->
        CASE v = "ANDROID_NDK" -> Value(<<"/", "ndk">>)
          [] v = "MinGW"       -> Value(<<"/", "mingw">>)
          [] v = "LLVM"        -> Value(<<"/", "llvm">>)
          [] v = "GCC"         -> Value(<<"/", "gcc">>)
          [] v = "OHOS_SDK"    -> Value(<<"/", "ohos">>)]

\* The environments a construction is tried in: every variable set, every
\* variable set to the empty string, no variable set.
Environs ==
    {AllSet, [v \in EnvVars |-> Value(<< >>)], [v \in EnvVars |-> Unset]}

\* The compiler prefixes a caller passes: none, a directory written without
\* and with a trailing separator.
Prefixes == {<< >>, <<"/", "tc">>, <<"/", "tc", "/">>}

\* What a constructor does: it returns a value or raises, having read the
\* environment variables reads (with the values found) and tested the paths
\* checks for existence (with the answers); runs are the child processes it
\* started, and no constructor starts one.
Return(value, reads, checks) ==
    [raised |-> "", msg |-> "", value |-> value, reads |-> reads,
     checks |-> checks, runs |-> << >>]
Raise(exc, msg, reads, checks) ==
    [raised |-> exc, msg |-> msg, value |-> << >>, reads |-> reads,
     checks |-> checks, runs |-> << >>]

----------------------------------------------------------------------------
(* The builder classes: construction. *)

\* An NdkBuilder._get_ndk_build_command that does not test the path it
\* derived.
NdkBuilder_get_ndk_build_command_NoPathTest(build_dir, compiler_prefix, environ, fs, plat) ==
    LET compiler == IF plat = "win32" THEN "ndk-build.cmd" ELSE "ndk-build"
        android_ndk == environ["ANDROID_NDK"]
        reads == IF compiler_prefix # << >> THEN << >>
                 ELSE <<[var |-> "ANDROID_NDK", val |-> android_ndk]>>
        compiler_path ==
            IF compiler_prefix # << >>
            THEN Div(Path(compiler_prefix, plat), compiler)
            ELSE Div(Path(android_ndk.val, plat), compiler)
        shown == Str(compiler_path, plat)
    IN  IF compiler_prefix = << >> /\ Falsy(android_ndk)
        THEN Raise("EnvironmentError",
                   "ANDROID_NDK environment variable is not set", reads, << >>)
        ELSE Return(<<shown, "V=1", "NDK_OUT=" \o build_dir,
                      "NDK_LIBS_OUT=" \o build_dir>>, reads,
                    <<[path |-> shown, found |-> shown \in fs]>>)

\* NdkBuilder._get_ndk_build_command; fs is the set of paths that exist.
NdkBuilder_get_ndk_build_command(build_dir, compiler_prefix, environ, fs, plat) ==
    LET compiler == IF plat = "win32" THEN "ndk-build.cmd" ELSE "ndk-build"
        android_ndk == environ["ANDROID_NDK"]
        reads == IF compiler_prefix # << >> THEN << >> ELSE <<[var |-> "ANDROID_NDK", val |-> android_ndk]>>
        compiler_path ==
            IF compiler_prefix # << >>
            THEN Div(Path(compiler_prefix, plat), compiler)
            ELSE Div(Path(android_ndk.val, plat), compiler)
        shown == Str(compiler_path, plat)
    IN  IF compiler_prefix = << >> /\ Falsy(android_ndk)
        THEN Raise("EnvironmentError",
                   "ANDROID_NDK environment variable is not set", reads, << >>)
        ELSE IF shown \notin fs
        THEN Raise("FileNotFoundError", shown \o " does not exist", reads, <<[path |-> shown, found |-> shown \in fs]>>)
        ELSE Return(<<shown, "V=1", "NDK_OUT=" \o build_dir,
                      "NDK_LIBS_OUT=" \o build_dir>>, reads, <<[path |-> shown, found |-> shown \in fs]>>)

\* NdkBuilder.__init__
NdkBuilder(build_dir, compiler_prefix, environ, fs, plat) ==
    LET c == NdkBuilder_get_ndk_build_command(build_dir, compiler_prefix,
                                               environ, fs, plat)
    IN  IF c.raised # "" THEN c
        ELSE Return([cls |-> "NdkBuilder", build_dir |-> build_dir,
                     build_cmd |-> c.value], c.reads, c.checks)

\* CMakeBuilder.__init__
CMakeBuilder(cls, build_dir) ==
    [cls        |-> cls,
     build_dir  |-> build_dir,
     config_cmd |-> <<"cmake", "-B", build_dir>>,
     build_cmd  |-> <<"cmake", "--build", build_dir>>]

\* A CMake subclass's __init__: super().__init__, then
\* self.config_cmd += self._get_config_cmd(compiler_prefix).
CMakeInit(cls, build_dir, c) ==
    IF c.raised # "" THEN c
    ELSE Return([CMakeBuilder(cls, build_dir) EXCEPT !.config_cmd = @ \o c.value],
                c.reads, c.checks)

\* CMakeWindowsVsMsvcBuilder.__init__
CMakeWindowsVsMsvcBuilder(build_dir) ==
    CMakeInit("CMakeWindowsVsMsvcBuilder", build_dir,
              Return(<<"-G", "Visual Studio 17 2022">>, << >>, << >>))

\* CMakeWindowsMingwBuilder._get_config_cmd
CMakeWindowsMingwBuilder_get_config_cmd(compiler_prefix, environ, fs, plat) ==
    LET make == "mingw32-make.exe"
        mingw == environ["MinGW"]
        reads == IF compiler_prefix # << >> THEN << >> ELSE <<[var |-> "MinGW", val |-> mingw]>>
        make_path ==
            IF compiler_prefix # << >>
            THEN Div(Path(compiler_prefix, plat), make)
            ELSE Div(Div(Path(mingw.val, plat), "bin"), make)
        shown == Str(make_path, plat)
    IN  IF compiler_prefix = << >> /\ Falsy(mingw)
        THEN Raise("EnvironmentError",
                   "MinGW environment variable is not set", reads, << >>)
        ELSE IF shown \notin fs
        THEN Raise("FileNotFoundError", shown \o " does not exist", reads, <<[path |-> shown, found |-> shown \in fs]>>)
        ELSE Return(<<"-G", "MinGW Makefiles", "-DCMAKE_MAKE_PROGRAM=" \o shown>>,
                    reads, <<[path |-> shown, found |-> shown \in fs]>>)

\* CMakeWindowsMingwBuilder.__init__
CMakeWindowsMingwBuilder(build_dir, compiler_prefix, environ, fs, plat) ==
    CMakeInit("CMakeWindowsMingwBuilder", build_dir,
              CMakeWindowsMingwBuilder_get_config_cmd(compiler_prefix, environ, fs, plat))

\* The tail shared by CMakeClangBuilder._get_config_cmd and
\* CMakeGccBuilder._get_config_cmd: the two existence tests and the tokens.
CompilerPair(c_path, cpp_path, reads, fs) ==
    IF c_path \notin fs
    THEN Raise("FileNotFoundError", c_path \o " does not exist", reads,
               <<[path |-> c_path, found |-> FALSE]>>)
    ELSE IF cpp_path \notin fs
    THEN Raise("FileNotFoundError", cpp_path \o " does not exist", reads,
               <<[path |-> c_path, found |-> TRUE],
                 [path |-> cpp_path, found |-> FALSE]>>)
    ELSE Return(<<"-G", "Ninja",
                  "-DCMAKE_C_COMPILER:FILEPATH=" \o c_path,
                  "-DCMAKE_CXX_COMPILER:FILEPATH=" \o cpp_path>>,
                reads,
                <<[path |-> c_path, found |-> TRUE],
                  [path |-> cpp_path, found |-> TRUE]>>)

\* CMakeClangBuilder._get_config_cmd: with a prefix, the compiler's name is
\* appended to the prefix text and the result is made a path.
CMakeClangBuilder_get_config_cmd(compiler_prefix, environ, fs, plat) ==
    LET compiler_c == IF plat = "win32" THEN "clang.exe" ELSE "clang"
        compiler_cpp == IF plat = "win32" THEN "clang++.exe" ELSE "clang++"
        llvm == environ["LLVM"]
        reads == IF compiler_prefix # << >> THEN << >> ELSE <<[var |-> "LLVM", val |-> llvm]>>
        compiler_c_path ==
            IF compiler_prefix # << >>
            THEN Path(compiler_prefix \o <<compiler_c>>, plat)
            ELSE Div(Div(Path(llvm.val, plat), "bin"), compiler_c)
        compiler_cpp_path ==
            IF compiler_prefix # << >>
            THEN Path(compiler_prefix \o <<compiler_cpp>>, plat)
            ELSE Div(Div(Path(llvm.val, plat), "bin"), compiler_cpp)
    IN  IF compiler_prefix = << >> /\ Falsy(llvm)
        THEN Raise("EnvironmentError",
                   "LLVM environment variable is not set", reads, << >>)
        ELSE CompilerPair(Str(compiler_c_path, plat), Str(compiler_cpp_path, plat),
                          reads, fs)

\* CMakeClangBuilder.__init__
CMakeClangBuilder(build_dir, compiler_prefix, environ, fs, plat) ==
    CMakeInit("CMakeClangBuilder", build_dir,
              CMakeClangBuilder_get_config_cmd(compiler_prefix, environ, fs, plat))

\* CMakeGccBuilder._get_config_cmd
CMakeGccBuilder_get_config_cmd(compiler_prefix, environ, fs, plat) ==
    LET compiler_c == "gcc"
        compiler_cpp == "g++"
        gcc == environ["GCC"]
        reads == IF compiler_prefix # << >> THEN << >> ELSE <<[var |-> "GCC", val |-> gcc]>>
        compiler_c_path ==
            IF compiler_prefix # << >>
            THEN Path(compiler_prefix \o <<compiler_c>>, plat)
            ELSE Div(Div(Path(gcc.val, plat), "bin"), compiler_c)
        compiler_cpp_path ==
            IF compiler_prefix # << >>
            THEN Path(compiler_prefix \o <<compiler_cpp>>, plat)
            ELSE Div(Div(Path(gcc.val, plat), "bin"), compiler_cpp)
    IN  IF compiler_prefix = << >> /\ Falsy(gcc)
        THEN Raise("EnvironmentError",
                   "GCC environment variable is not set", reads, << >>)
        ELSE CompilerPair(Str(compiler_c_path, plat), Str(compiler_cpp_path, plat),
                          reads, fs)

\* CMakeGccBuilder.__init__
CMakeGccBuilder(build_dir, compiler_prefix, environ, fs, plat) ==
    CMakeInit("CMakeGccBuilder", build_dir,
              CMakeGccBuilder_get_config_cmd(compiler_prefix, environ, fs, plat))

\* CMakeAndroidBuilder._get_config_cmd
CMakeAndroidBuilder_get_config_cmd(compiler_prefix, environ, fs, plat) ==
    LET android_ndk == environ["ANDROID_NDK"]
        reads == IF compiler_prefix # << >> THEN << >> ELSE <<[var |-> "ANDROID_NDK", val |-> android_ndk]>>
        root == IF compiler_prefix # << >> THEN compiler_prefix ELSE android_ndk.val
        cmake_toolchain ==
            Div(Div(Div(Path(root, plat), "build"), "cmake"), "android.toolchain.cmake")
        shown == Str(cmake_toolchain, plat)
    IN  IF compiler_prefix = << >> /\ Falsy(android_ndk)
        THEN Raise("EnvironmentError",
                   "ANDROID_NDK environment variable is not set", reads, << >>)
        ELSE IF shown \notin fs
        THEN Raise("FileNotFoundError", shown \o " does not exist", reads, <<[path |-> shown, found |-> shown \in fs]>>)
        ELSE Return(<<"-G", "Ninja", "-DCMAKE_TOOLCHAIN_FILE=" \o shown,
                      "-DANDROID_ABI=arm64-v8a", "-DANDROID_STL=c++_shared",
                      "-DANDROID_PLATFORM=android-31">>, reads, <<[path |-> shown, found |-> shown \in fs]>>)

\* CMakeAndroidBuilder.__init__
CMakeAndroidBuilder(build_dir, compiler_prefix, environ, fs, plat) ==
    CMakeInit("CMakeAndroidBuilder", build_dir,
              CMakeAndroidBuilder_get_config_cmd(compiler_prefix, environ, fs, plat))

\* A CMakeOhosBuilder._get_config_cmd that does not test what the
\* environment gave it: an unset OHOS_SDK is only noticed as a missing file.
CMakeOhosBuilder_get_config_cmd_NoEnvTest(compiler_prefix, environ, fs, plat) ==
    LET ohos_sdk == environ["OHOS_SDK"]
        reads == IF compiler_prefix # << >> THEN << >>
                 ELSE <<[var |-> "OHOS_SDK", val |-> ohos_sdk]>>
        root == IF compiler_prefix # << >> THEN compiler_prefix ELSE ohos_sdk.val
        cmake_toolchain ==
            Div(Div(Div(Path(root, plat), "build"), "cmake"), "ohos.toolchain.cmake")
        shown == Str(cmake_toolchain, plat)
    IN  IF shown \notin fs
        THEN Raise("FileNotFoundError", shown \o " does not exist", reads,
                   <<[path |-> shown, found |-> FALSE]>>)
        ELSE Return(<<"-G", "Ninja", "-DCMAKE_TOOLCHAIN_FILE=" \o shown,
                      "-DANDROID_ABI=arm64-v8a", "-DANDROID_STL=c++_shared",
                      "-DANDROID_PLATFORM=OHOS">>, reads,
                    <<[path |-> shown, found |-> TRUE]>>)

\* CMakeOhosBuilder._get_config_cmd
CMakeOhosBuilder_get_config_cmd(compiler_prefix, environ, fs, plat) ==
    LET ohos_sdk == environ["OHOS_SDK"]
        reads == IF compiler_prefix # << >> THEN << >> ELSE <<[var |-> "OHOS_SDK", val |-> ohos_sdk]>>
        root == IF compiler_prefix # << >> THEN compiler_prefix ELSE ohos_sdk.val
        cmake_toolchain ==
            Div(Div(Div(Path(root, plat), "build"), "cmake"), "ohos.toolchain.cmake")
        shown == Str(cmake_toolchain, plat)
    IN  IF compiler_prefix = << >> /\ Falsy(ohos_sdk)
        THEN Raise("EnvironmentError",
                   "OHOS_SDK environment variable is not set", reads, << >>)
        ELSE IF shown \notin fs
        THEN Raise("FileNotFoundError", shown \o " does not exist", reads, <<[path |-> shown, found |-> shown \in fs]>>)
        ELSE Return(<<"-G", "Ninja", "-DCMAKE_TOOLCHAIN_FILE=" \o shown,
                      "-DANDROID_ABI=arm64-v8a", "-DANDROID_STL=c++_shared",
                      "-DANDROID_PLATFORM=OHOS">>, reads, <<[path |-> shown, found |-> shown \in fs]>>)

\* CMakeOhosBuilder.__init__
CMakeOhosBuilder(build_dir, compiler_prefix, environ, fs, plat) ==
    CMakeInit("CMakeOhosBuilder", build_dir,
              CMakeOhosBuilder_get_config_cmd(compiler_prefix, environ, fs, plat))

----------------------------------------------------------------------------
(* The factory. *)

\* class BuilderType
BuilderType ==
    {"NDK", "CMAKE_WINDOWS_VS_MSVC", "CMAKE_WINDOWS_MINGW", "CMAKE_CLANG",
     "CMAKE_GCC", "CMAKE_ANDROID", "CMAKE_OHOS"}

\* What a caller may pass as builder_type: a member, or something else.
Selectors == BuilderType \cup {"NOT_A_MEMBER"}

\* A factory whose chain of tests ends in a default builder.
BuilderFactory_create_Default(builder_type, build_dir, compiler_prefix, environ, fs, plat) ==
    IF builder_type = "NDK"
    THEN NdkBuilder(build_dir, compiler_prefix, environ, fs, plat)
    ELSE IF builder_type = "CMAKE_WINDOWS_MINGW"
    THEN CMakeWindowsMingwBuilder(build_dir, compiler_prefix, environ, fs, plat)
    ELSE IF builder_type = "CMAKE_CLANG"
    THEN CMakeClangBuilder(build_dir, compiler_prefix, environ, fs, plat)
    ELSE IF builder_type = "CMAKE_GCC"
    THEN CMakeGccBuilder(build_dir, compiler_prefix, environ, fs, plat)
    ELSE IF builder_type = "CMAKE_ANDROID"
    THEN CMakeAndroidBuilder(build_dir, compiler_prefix, environ, fs, plat)
    ELSE IF builder_type = "CMAKE_OHOS"
    THEN CMakeOhosBuilder(build_dir, compiler_prefix, environ, fs, plat)
    ELSE CMakeWindowsVsMsvcBuilder(build_dir)

\* BuilderFactory.create
BuilderFactory_create(builder_type, build_dir, compiler_prefix, environ, fs, plat) ==
    IF builder_type = "NDK"
    THEN NdkBuilder(build_dir, compiler_prefix, environ, fs, plat)
    ELSE IF builder_type = "CMAKE_WINDOWS_VS_MSVC"
    THEN CMakeWindowsVsMsvcBuilder(build_dir)
    ELSE IF builder_type = "CMAKE_WINDOWS_MINGW"
    THEN CMakeWindowsMingwBuilder(build_dir, compiler_prefix, environ, fs, plat)
    ELSE IF builder_type = "CMAKE_CLANG"
    THEN CMakeClangBuilder(build_dir, compiler_prefix, environ, fs, plat)
    ELSE IF builder_type = "CMAKE_GCC"
    THEN CMakeGccBuilder(build_dir, compiler_prefix, environ, fs, plat)
    ELSE IF builder_type = "CMAKE_ANDROID"
    THEN CMakeAndroidBuilder(build_dir, compiler_prefix, environ, fs, plat)
    ELSE IF builder_type = "CMAKE_OHOS"
    THEN CMakeOhosBuilder(build_dir, compiler_prefix, environ, fs, plat)
    ELSE Raise("ValueError", "Invalid builder type: " \o builder_type, << >>, << >>)

----------------------------------------------------------------------------
(* The command runner. *)

\* What a child process can do: end with status 0, end with a nonzero
\* status having written to its error stream, or not start at all
\* (subprocess.run raises FileNotFoundError, an OSError).
ChildOutcomes ==
    {[how |-> "exit", code |-> 0, stdout |-> "built", stderr |-> ""],
     [how |-> "exit", code |-> 1, stdout |-> "", stderr |-> "toolchain error"],
     [how |-> "oserror", code |-> 0, stdout |-> "", stderr |-> ""]}

\* subprocess.run(..., check=True) returns: the child ran and ended with 0.
Succeeds(child) == child.how = "exit" /\ child.code = 0

\* A run_cmd that reports a failed child and then returns to its caller.
run_cmd_Returns(args, child) ==
    IF Succeeds(child)
    THEN [args |-> args, child |-> child, printed |-> <<child.stdout>>,
          raised |-> "", status |-> 0]
    ELSE [args |-> args, child |-> child,
          printed |-> <<"command failed: " \o Join(args, " "),
                        "error output: " \o child.stderr>>,
          raised |-> "", status |-> 0]

\* run_cmd(args) when the child does what child says: what is printed, and
\* what is raised ("" when run_cmd returns).  The two messages are the
\* source's, in English.
run_cmd(args, child) ==
    IF Succeeds(child)
    THEN [args |-> args, child |-> child, printed |-> <<child.stdout>>,
          raised |-> "", status |-> 0]
    ELSE IF child.how = "exit"
    THEN [args |-> args, child |-> child,
          printed |-> <<"command failed: " \o Join(args, " "),
                        "error output: " \o child.stderr>>,
          raised |-> "SystemExit", status |-> 1]
    ELSE [args |-> args, child |-> child, printed |-> << >>,
          raised |-> "FileNotFoundError", status |-> 1]

----------------------------------------------------------------------------
(* build and clean. *)

\* The options lists a caller passes to build: None, or a list of tokens.
NoOptions == [none |-> TRUE, toks |-> << >>]
Options(toks) == [none |-> FALSE, toks |-> toks]
OptionLists ==
    {NoOptions, Options(<< >>), Options(<<"X=1">>), Options(<<"Y=2", "X=1">>)}

\* build_options or []
OrEmpty(build_options) ==
    IF build_options.none \/ build_options.toks = << >> THEN << >>
    ELSE build_options.toks

\* An NdkBuilder.build that puts the caller's options before the stored
\* tokens.
NdkBuilder_build_OptionsFirst(self, build_options, child) ==
    LET cmd == OrEmpty(build_options) \o self.build_cmd
    IN  [self |-> self, runs |-> <<run_cmd(cmd, child)>>]

\* NdkBuilder.build: the object afterwards and the runs of run_cmd.
NdkBuilder_build(self, build_options, child) ==
    LET cmd == self.build_cmd \o OrEmpty(build_options)
    IN  [self |-> self, runs |-> <<run_cmd(cmd, child)>>]

\* A CMakeBuilder.build that hands the caller's options to the build
\* command as well.
CMakeBuilder_build_OptionsOnBoth(self, build_options, child1, child2) ==
    LET config_cmd == self.config_cmd \o OrEmpty(build_options)
        first == run_cmd(config_cmd, child1)
    IN  [self |-> self,
         runs |-> IF first.raised # "" THEN <<first>>
                  ELSE <<first,
                         run_cmd(self.build_cmd \o OrEmpty(build_options), child2)>>]

\* A CMakeBuilder.build that extends the stored command in place
\* (self.config_cmd += build_options).
CMakeBuilder_build_InPlace(self, build_options, child1, child2) ==
    LET config_cmd == self.config_cmd \o OrEmpty(build_options)
        first == run_cmd(config_cmd, child1)
    IN  [self |-> [self EXCEPT !.config_cmd = config_cmd],
         runs |-> IF first.raised # "" THEN <<first>>
                  ELSE <<first, run_cmd(self.build_cmd, child2)>>]

\* CMakeBuilder.build: the second run_cmd is reached only if the first
\* returns.
CMakeBuilder_build(self, build_options, child1, child2) ==
    LET config_cmd == self.config_cmd \o OrEmpty(build_options)
        first == run_cmd(config_cmd, child1)
    IN  [self |-> self,
         runs |-> IF first.raised # "" THEN <<first>>
                  ELSE <<first, run_cmd(self.build_cmd, child2)>>]

\* The states of a build directory on disk: not there, a tree that can be
\* removed, a tree holding an entry whose removal fails.
DirStates == {"absent", "tree", "locked"}

\* shutil.rmtree(path, ignore_errors): the state of path afterwards and the
\* error raised ("" for none).
rmtree(before, ignore_errors) ==
    CASE before = "tree"   -> [after |-> "absent", raised |-> ""]
      [] before = "absent" ->
            [after |-> "absent",
             raised |-> IF ignore_errors THEN "" ELSE "FileNotFoundError"]
      [] before = "locked" ->
            [after |-> "locked",
             raised |-> IF ignore_errors THEN "" ELSE "PermissionError"]

\* A clean that lets the errors of rmtree through.
BuilderImpl_clean_Strict(self, before) == rmtree(before, FALSE)

\* BuilderImpl.clean
BuilderImpl_clean(self, before) == rmtree(before, TRUE)

----------------------------------------------------------------------------
(* The process. *)

\* The variables of the calling program that hold a builder; the program
\* binds a first, then b.
Slots == {"a", "b"}

\* The build directory the program passes when it binds each variable.
BuildDirOf == [a |-> "/b1", b |-> "/b2"]

\* A slot that holds no builder.
NoBuilder == [cls |-> "None"]

\* The paths a construction with these arguments can test for existence.
Probe(builder_type, build_dir, compiler_prefix, environ, plat) ==
    LET Tested(fs) ==
            LET r == BuilderFactory_create(builder_type, build_dir,
                                           compiler_prefix, environ, fs, plat)
            IN  {r.checks[i].path : i \in DOMAIN r.checks}
    IN  Tested(Tested({}))

\* The record of a call; the fields a call has no use for are empty.
NoCall ==
    [op |-> "start", slot |-> "", kind |-> "", build_dir |-> "",
     prefix |-> << >>, options |-> NoOptions, raised |-> "", msg |-> "",
     reads |-> << >>, checks |-> << >>, before |-> "", after |-> ""]

\* An exception that nothing catches ends the interpreter with status 1;
\* so does sys.exit(1).
Ends(raised) == raised # ""

\* The tokens of a sequence.
Range(toks) == {toks[i] : i \in DOMAIN toks}

\* What every call does to the process.
Called(raised) ==
    /\ pc' = IF Ends(raised) THEN "exited" ELSE "running"
    /\ exit_status' = IF Ends(raised) THEN 1 ELSE 0
    /\ earlier' = earlier \cup Range(last.options.toks)

\* What the runs of a call printed.
RECURSIVE Printed(_)
Printed(runs) ==
    IF runs = << >> THEN << >> ELSE Head(runs).printed \o Printed(Tail(runs))

\* The child processes of the runs of a call.
Started(runs) == [i \in DOMAIN runs |-> [args |-> runs[i].args, child |-> runs[i].child]]

Init ==
    /\ platform \in {"linux", "win32"}
    /\ builders = [s \in Slots |-> NoBuilder]
    /\ pc = "running"
    /\ exit_status = 0
    /\ last = NoCall
    /\ issued = << >>
    /\ out = << >>
    /\ earlier = {}

\* A call can be made: the interpreter runs.
CanCall == pc = "running"

\* slot = BuilderFactory.create(builder_type, build_dir, compiler_prefix),
\* in environment environ and with the paths fs existing
Create ==
    /\ CanCall
    /\ \E slot \in {s \in Slots : (builders[s] = NoBuilder) /\
                                   (s = "b" => builders["a"] # NoBuilder)},
          builder_type \in Selectors, compiler_prefix \in Prefixes, environ \in Environs :
        \E fs \in SUBSET Probe(builder_type, BuildDirOf[slot], compiler_prefix,
                               environ, platform) :
          LET build_dir == BuildDirOf[slot]
              r == BuilderFactory_create(builder_type, build_dir, compiler_prefix,
                                         environ, fs, platform)
          IN  /\ builders' = IF r.raised = ""
                             THEN [builders EXCEPT ![slot] = r.value]
                             ELSE builders
              /\ last' = [NoCall EXCEPT !.op = "create", !.slot = slot,
                             !.kind = builder_type, !.build_dir = build_dir,
                             !.prefix = compiler_prefix, !.raised = r.raised,
                             !.msg = r.msg, !.reads = r.reads,
                             !.checks = r.checks]
              /\ issued' = Started(r.runs)
              /\ out' = Printed(r.runs)
              /\ Called(r.raised)
    /\ UNCHANGED platform

\* What a build call leaves behind.
Built(slot, build_options, b) ==
    LET raised == b.runs[Len(b.runs)].raised
    IN  /\ builders' = [builders EXCEPT ![slot] = b.self]
        /\ last' = [NoCall EXCEPT !.op = "build", !.slot = slot,
                       !.kind = builders[slot].cls,
                       !.build_dir = builders[slot].build_dir,
                       !.options = build_options, !.raised = raised]
        /\ issued' = Started(b.runs)
        /\ out' = Printed(b.runs)
        /\ Called(raised)
        /\ UNCHANGED platform

\* slot.build(build_options), slot an NdkBuilder
BuildNdk ==
    /\ CanCall
    /\ \E slot \in {s \in Slots : builders[s].cls = "NdkBuilder"},
          build_options \in OptionLists, child \in ChildOutcomes :
          Built(slot, build_options,
                NdkBuilder_build(builders[slot], build_options, child))

\* slot.build(build_options), slot one of the CMake builders
BuildCMake ==
    /\ CanCall
    /\ \E slot \in {s \in Slots : builders[s].cls \notin {"None", "NdkBuilder"}},
          build_options \in OptionLists, child1 \in ChildOutcomes :
          \E child2 \in IF Succeeds(child1) THEN ChildOutcomes ELSE {child1} :
             Built(slot, build_options,
                   CMakeBuilder_build(builders[slot], build_options, child1, child2))

\* slot.clean(), the build directory being in state before
Clean ==
    /\ CanCall
    /\ \E slot \in {s \in Slots : builders[s] # NoBuilder}, before \in DirStates :
          LET r == BuilderImpl_clean(builders[slot], before)
          IN  /\ last' = [NoCall EXCEPT !.op = "clean", !.slot = slot,
                             !.kind = builders[slot].cls,
                             !.build_dir = builders[slot].build_dir,
                             !.raised = r.raised, !.before = before,
                             !.after = r.after]
              /\ Called(r.raised)
    /\ issued' = << >>
    /\ out' = << >>
    /\ UNCHANGED <<platform, builders>>

Next == Create \/ BuildNdk \/ BuildCMake \/ Clean

Spec == Init /\ [][Next]_vars

----------------------------------------------------------------------------
(* Vocabulary of the properties. *)

\* The most recent call, by kind.
IsCreate == last.op = "create"
IsBuild == last.op = "build"
IsClean == last.op = "clean"
IsCMakeBuild == IsBuild /\ last.kind # "NdkBuilder"
IsNdkBuild == IsBuild /\ last.kind = "NdkBuilder"

\* The option tokens the most recent call was given.
GivenTokens == IF last.options.none THEN << >> ELSE last.options.toks

\* The class each selector stands for.
ClassOf ==
    [NDK                   |-> "NdkBuilder",
     CMAKE_WINDOWS_VS_MSVC |-> "CMakeWindowsVsMsvcBuilder",
     CMAKE_WINDOWS_MINGW   |-> "CMakeWindowsMingwBuilder",
     CMAKE_CLANG           |-> "CMakeClangBuilder",
     CMAKE_GCC             |-> "CMakeGccBuilder",
     CMAKE_ANDROID         |-> "CMakeAndroidBuilder",
     CMAKE_OHOS            |-> "CMakeOhosBuilder"]

\* The environment variable each selector's variant needs when it is given
\* no prefix; CMAKE_WINDOWS_VS_MSVC needs none.
RequiredVar ==
    [NDK                 |-> "ANDROID_NDK",
     CMAKE_WINDOWS_MINGW |-> "MinGW",
     CMAKE_CLANG         |-> "LLVM",
     CMAKE_GCC           |-> "GCC",
     CMAKE_ANDROID       |-> "ANDROID_NDK",
     CMAKE_OHOS          |-> "OHOS_SDK"]

\* The selectors of the variants that resolve a toolchain path.
PathKinds == DOMAIN RequiredVar

\* A run whose child did not end with status 0.
Failed(run) == ~(run.child.how = "exit" /\ run.child.code = 0)

\* Every existence test of the most recent construction found its path.
AllFound == \A i \in DOMAIN last.checks : last.checks[i].found

----------------------------------------------------------------------------
(* C1 *)

\* C1 as stated: every build call of a CMake variant issues exactly two
\* commands, the stored configure tokens followed by the options and then
\* [cmake, --build, <build_dir>].
C1_AlwaysTwoCommands ==
    IsCMakeBuild =>
        /\ Len(issued) = 2
        /\ issued[1].args = builders[last.slot].config_cmd \o GivenTokens
        /\ issued[2].args = <<"cmake", "--build", last.build_dir>>

\* C1, amended: every build call of a CMake variant first issues the stored
\* configure tokens followed by the options; when that command ends with
\* status 0 the call issues exactly one more command,
\* [cmake, --build, <build_dir>], without the options; when the configure
\* command fails it is the only command the call issues.
C1_ConfigureThenBuild ==
    IsCMakeBuild =>
        /\ Len(issued) \in {1, 2}
        /\ issued[1].args = builders[last.slot].config_cmd \o GivenTokens
        /\ SubSeq(issued[1].args, 1, 3) = <<"cmake", "-B", last.build_dir>>
        /\ Len(issued) = 2 <=> ~Failed(issued[1])
        /\ Len(issued) = 2 =>
              issued[2].args = <<"cmake", "--build", last.build_dir>>

\* A CMake build given two options ran both of its commands.
C1_Witness ==
    /\ IsCMakeBuild
    /\ GivenTokens = <<"Y=2", "X=1">>
    /\ Len(issued) = 2
    /\ ~Failed(issued[2])

----------------------------------------------------------------------------
(* C2 *)

\* C2 as stated: for each of the seven variants, a construction with a
\* non-empty prefix under which the toolchain is not found fails with a
\* not-found error naming the path tried, and starts no child process.
C2_AllSevenFail ==
    (IsCreate /\ last.kind \in BuilderType /\ last.prefix # << >>
        /\ ~(last.checks # << >> /\ AllFound)) =>
        /\ last.raised = "FileNotFoundError"
        /\ issued = << >>

\* C2, amended: for the six variants that resolve a toolchain path (all but
\* CMake+MSVC), a construction with a non-empty prefix tests a path derived
\* from the prefix without reading the environment; if a path it tests does
\* not exist the construction fails with a not-found error naming that
\* path, and binds no builder.  CMake+MSVC resolves no path: it ignores the
\* prefix and is constructed.  No construction starts a child process.
C2_MissingToolchainFails ==
    IsCreate =>
        /\ issued = << >>
        /\ (last.kind \in PathKinds /\ last.prefix # << >>) =>
              /\ last.reads = << >>
              /\ last.checks # << >>
              /\ \A i \in 1..(Len(last.checks) - 1) : last.checks[i].found
              /\ ~AllFound =>
                    /\ last.raised = "FileNotFoundError"
                    /\ last.msg =
                          last.checks[Len(last.checks)].path \o " does not exist"
                    /\ builders[last.slot] = NoBuilder
                    /\ pc = "exited"
              /\ AllFound => last.raised = ""
        /\ (last.kind = "CMAKE_WINDOWS_VS_MSVC") =>
              /\ last.checks = << >>
              /\ last.raised = ""
              /\ builders[last.slot].cls = "CMakeWindowsVsMsvcBuilder"

\* An NDK construction with a prefix did not find ndk-build under it.
C2_Witness ==
    /\ IsCreate
    /\ last.kind = "NDK"
    /\ last.prefix = <<"/", "tc">>
    /\ last.raised = "FileNotFoundError"
    /\ last.msg = "/tc/ndk-build does not exist"

----------------------------------------------------------------------------
(* C3 *)

\* C3: whenever a child process ends with a nonzero status or cannot be
\* started, the runner prints the failed command line and the captured
\* error stream and then ends the process with a nonzero status by
\* sys.exit; it does not return.
C3_FailureReportedThenExit ==
    \A i \in DOMAIN issued :
        Failed(issued[i]) =>
            /\ i = Len(issued)
            /\ Len(out) >= 2
            /\ out[Len(out) - 1] = "command failed: " \o Join(issued[i].args, " ")
            /\ out[Len(out)] = "error output: " \o issued[i].child.stderr
            /\ last.raised = "SystemExit"
            /\ pc = "exited"
            /\ exit_status # 0

----------------------------------------------------------------------------
(* C4 *)

\* C4: for every variant that needs an environment variable, a construction
\* with no prefix reads exactly that variable, and if it is unset the
\* construction fails with a configuration error naming the variable,
\* before any existence test or child process; no builder is bound, so the
\* error cannot come from a later build.
C4_UnsetVariableFailsAtConstruction ==
    (IsCreate /\ last.kind \in DOMAIN RequiredVar /\ last.prefix = << >>) =>
        /\ Len(last.reads) = 1
        /\ last.reads[1].var = RequiredVar[last.kind]
        /\ ~last.reads[1].val.set =>
              /\ last.raised = "EnvironmentError"
              /\ last.msg = RequiredVar[last.kind]
                              \o " environment variable is not set"
              /\ last.checks = << >>
              /\ issued = << >>
              /\ builders[last.slot] = NoBuilder
              /\ pc = "exited"

\* An OHOS construction with no prefix found OHOS_SDK unset.
C4_Witness ==
    /\ IsCreate
    /\ last.kind = "CMAKE_OHOS"
    /\ last.prefix = << >>
    /\ last.reads = <<[var |-> "OHOS_SDK", val |-> Unset]>>
    /\ last.raised = "EnvironmentError"

----------------------------------------------------------------------------
(* C5 *)

\* The paths of ndk-build the constructions of the model can resolve.
NdkPaths ==
    IF platform = "win32"
    THEN {"\\tc\\ndk-build.cmd", "\\ndk\\ndk-build.cmd"}
    ELSE {"/tc/ndk-build", "/ndk/ndk-build"}

\* C5: every build call of the NDK variant issues exactly one command:
\* the resolved ndk-build path, V=1, NDK_OUT=<build_dir>,
\* NDK_LIBS_OUT=<build_dir>, then the options in the order given (none for
\* absent or empty options).
C5_NdkOneCommand ==
    IsNdkBuild =>
        /\ Len(issued) = 1
        /\ \E path \in NdkPaths :
              issued[1].args =
                  <<path, "V=1", "NDK_OUT=" \o last.build_dir,
                    "NDK_LIBS_OUT=" \o last.build_dir>> \o GivenTokens

\* An NDK build given two options issued its command.
C5_Witness ==
    /\ IsNdkBuild
    /\ GivenTokens = <<"Y=2", "X=1">>
    /\ issued[1].args[1] = "/ndk/ndk-build"
    /\ last.raised = ""

----------------------------------------------------------------------------
(* C6 *)

\* The place of a variant's toolchain under a prefix directory.
LayoutUnderPrefix(kind, plat) ==
    CASE kind = "NDK" ->
            <<IF plat = "win32" THEN "ndk-build.cmd" ELSE "ndk-build">>
      [] kind = "CMAKE_WINDOWS_MINGW" -> <<"mingw32-make.exe">>
      [] kind = "CMAKE_CLANG" ->
            <<IF plat = "win32" THEN "clang.exe" ELSE "clang">>
      [] kind = "CMAKE_GCC" -> <<"gcc">>
      [] kind = "CMAKE_ANDROID" -> <<"build", "cmake", "android.toolchain.cmake">>
      [] kind = "CMAKE_OHOS" -> <<"build", "cmake", "ohos.toolchain.cmake">>

\* The prefix, read as a directory, joined with a layout.
Under(prefix, layout, plat) ==
    LET dir == Path(prefix, plat)
    IN  Str([dir EXCEPT !.parts = @ \o layout], plat)

\* C6: for every variant with a toolchain path, a construction with a
\* non-empty prefix tests, first, the path that joins the prefix as a
\* directory with the variant's layout.
C6_PrefixJoinedAsDirectory ==
    (IsCreate /\ last.kind \in PathKinds /\ last.prefix # << >>) =>
        /\ last.checks # << >>
        /\ last.checks[1].path =
              Under(last.prefix, LayoutUnderPrefix(last.kind, platform), platform)

----------------------------------------------------------------------------
(* C7 *)

\* C7 as stated: clean returns without raising whatever the state of the
\* build directory, and afterwards the directory does not exist.
C7_AlwaysRemoved ==
    IsClean => (last.raised = "" /\ last.after = "absent")

\* C7, amended: clean returns without raising whatever the state of the
\* build directory; afterwards the directory does not exist if it was
\* absent or if all of its tree could be removed; when the removal of an
\* entry fails the error is swallowed and the directory is still there.
C7_RemovedUnlessRemovalFails ==
    IsClean =>
        /\ last.raised = ""
        /\ pc = "running"
        /\ last.before \in {"absent", "tree"} => last.after = "absent"
        /\ last.before = "locked" => last.after # "absent"

\* A clean of a build directory that was not there.
C7_Witness ==
    /\ IsClean
    /\ last.before = "absent"
    /\ last.after = "absent"
    /\ last.raised = ""

----------------------------------------------------------------------------
(* C8 *)

\* C8: create with a selector that is no member of BuilderType raises the
\* selector error, having read no environment variable, tested no path and
\* bound no builder; create with a member either binds a builder of the
\* member's own class or fails with an error of that variant.
C8_FactoryDispatch ==
    IsCreate =>
        /\ last.kind \notin BuilderType =>
              /\ last.raised = "ValueError"
              /\ last.reads = << >>
              /\ last.checks = << >>
              /\ issued = << >>
              /\ builders[last.slot] = NoBuilder
        /\ last.kind \in BuilderType =>
              /\ last.raised # "ValueError"
              /\ last.raised = "" =>
                    /\ builders[last.slot].cls = ClassOf[last.kind]
                    /\ builders[last.slot].build_dir = last.build_dir
              /\ \A i \in DOMAIN last.reads :
                    /\ last.kind \in DOMAIN RequiredVar
                    /\ last.reads[i].var = RequiredVar[last.kind]

\* A create with a selector outside the enumeration.
C8_Witness ==
    /\ IsCreate
    /\ last.kind = "NOT_A_MEMBER"
    /\ last.raised = "ValueError"
    /\ pc = "exited"

----------------------------------------------------------------------------
(* C9 *)

\* A failed command is the last one of its call and ends the process; a
\* second command of a call follows a first that ended with status 0.
C9_FailureIsLast ==
    /\ \A i \in DOMAIN issued :
          Failed(issued[i]) =>
              (i = Len(issued) /\ pc = "exited" /\ exit_status # 0)
    /\ (IsCMakeBuild /\ Len(issued) >= 2) =>
          (issued[1].child.how = "exit" /\ issued[1].child.code = 0)

\* C9: within a build call of a CMake variant the build command is issued
\* only after the configure command ended with status 0; a failed command
\* ends the process, and once the process has ended no command is issued.
C9_BuildOnlyAfterConfigure ==
    /\ []C9_FailureIsLast
    /\ [][pc = "exited" => (pc' = "exited" /\ issued' = issued)]_vars

\* A CMake build whose configure command failed: it was the only command.
C9_Witness ==
    /\ IsCMakeBuild
    /\ Len(issued) = 1
    /\ issued[1].child.code = 1
    /\ pc = "exited"

----------------------------------------------------------------------------
(* C10 *)

\* The command a build call issues first holds the stored tokens and the
\* options of this call, and no token given only to an earlier build call.
C10_OnlyThisCallsOptions ==
    IsBuild =>
        /\ issued[1].args =
              (IF last.kind = "NdkBuilder" THEN builders[last.slot].build_cmd
               ELSE builders[last.slot].config_cmd) \o GivenTokens
        /\ \A i \in DOMAIN issued :
              Range(issued[i].args) \cap (earlier \ Range(GivenTokens)) = {}

\* C10: no call changes a builder once it is constructed (its config_cmd,
\* build_cmd and build_dir stay as the constructor left them), so a build
\* call issues the construction-time tokens followed by its own options
\* and nothing an earlier build call, on this or another builder, was given.
C10_BuildersUnchanged ==
    /\ []C10_OnlyThisCallsOptions
    /\ [][\A s \in Slots : builders[s] # NoBuilder => builders'[s] = builders[s]]_vars

\* A build given X=1 after an earlier build was given Y=2, with another
\* builder constructed.
C10_Witness ==
    /\ IsBuild
    /\ last.raised = ""
    /\ "Y=2" \in earlier
    /\ GivenTokens = <<"X=1">>
    /\ \A s \in Slots : builders[s] # NoBuilder

====
